---- MODULE Spec2Model ----
(***************************************************************************)
(* The advertisement broadcaster of liqo                                   *)
(* (internal/advertisementoperator/broadcaster/broadcaster.go).            *)
(*                                                                         *)
(* The remote cluster's API server is a store holding at most one          *)
(* Advertisement named adv-<HomeClusterID> and at most one Secret named    *)
(* vk-secret-<HomeClusterID>; every object carries a UID and a             *)
(* resourceVersion.  Three specifications share the definitions:           *)
(*   Spec      StartBroadcaster: the bounded client bootstrap, the first   *)
(*             SendSecretToForeignCluster and the GenerateAdvertisement    *)
(*             loop with its once.Do goroutines, beside a caller of        *)
(*             NotifyAdvertisementDeletion and the remote cluster's own    *)
(*             actors (FairSpec and LiveSpec add what the scheduler        *)
(*             guarantees);                                                *)
(*   SpecAPI   a caller of the exported methods, one call after another,   *)
(*             against the same remote store;                              *)
(*   SpecAcct  GetAllPodsResources applied to a pod list.                  *)
(***************************************************************************)
EXTENDS Naturals, Sequences, FiniteSets, TLC

\* Distinct advertisement payloads CreateAdvertisement may build.
MaxContent == 2
\* Length of the pod list handed to GetAllPodsResources.
MaxPods == 2
\* Largest request or limit of one pod for one resource class.
MaxQty == 2
\* Goroutines spawned by `go once.Do` that may be alive at once.
MaxGo == 3

VARIABLES
    adv,            \* remote store: the Advertisement adv-<HomeClusterID>
    sec,            \* remote store: the Secret vk-secret-<HomeClusterID>
    kss,            \* b.KubeconfigSecretForForeign, the local Secret object
    mutex,          \* b.mutex is held
    pc,             \* position of the thread running the methods
    caller,         \* who called the running method: "start", "loop", "api"
    retry,          \* StartBroadcaster's retry counter
    advToCreate,    \* payload of the advToCreate argument (0: none)
    advObj,         \* SendAdvertisementToForeignCluster's adv / obj
    secretForeign,  \* the secretForeign local of both Send methods
    calls,          \* SpecAPI: the last two completed calls
    cur,            \* SpecAPI: what the running call found when it started
    envW,           \* SpecAPI: another actor wrote since the last call boundary
    pubOk,          \* some SendAdvertisementToForeignCluster returned nil error
    logged,         \* the error GenerateAdvertisement's running tick logged last
    retrying,       \* the running tick follows a failed one and its 1-minute pause
    ret,            \* the advertisement SendAdvertisementToForeignCluster returned
    once,           \* the sync.Once of GenerateAdvertisement
    pendingDo,      \* goroutines spawned that have not entered once.Do yet
    blockedDo,      \* goroutines blocked in once.Do while f runs
    watchRuns,      \* executions of WatchAdvertisement (saturating at 2)
    retPc,          \* the caller of NotifyAdvertisementDeletion beside the loop
    stopReq,        \* an external stop request has been made
    podList,        \* SpecAcct: nodeNonTerminatedPodsList.Items
    requests,       \* SpecAcct: the returned requests
    limits,         \* SpecAcct: the returned limits
    acctPc          \* SpecAcct: "input" before the call, "done" after it

storeVars == <<adv, sec>>
localVars == <<kss, mutex, retry, advToCreate, advObj, secretForeign>>
ctlVars   == <<pc, caller, calls, cur, envW, pubOk, logged, retrying, ret>>
goVars    == <<once, pendingDo, blockedDo, watchRuns>>
sigVars   == <<retPc, stopReq>>
acctVars  == <<podList, requests, limits, acctPc>>
vars      == <<storeVars, localVars, ctlVars, goVars, sigVars, acctVars>>

----------------------------------------------------------------------------
(* Objects of the remote store.  UID 0 and resourceVersion 0 stand for the *)
(* empty string; owner 0 stands for no owner reference.                    *)

Contents == 1..MaxContent

\* b.HomeClusterID, as the characters it is made of.
HomeClusterID == <<"h", "o", "m", "e">>

\* pkg.AdvertisementPrefix
AdvertisementPrefix == <<"a", "d", "v", "-">>

\* ObjectMeta.Name of the advertisement CreateAdvertisement builds; the remote
\* store's advertisement `adv` is the one of this name.
AdvName(id) == AdvertisementPrefix \o id

\* A nil *advtypes.Advertisement.
NilAdv == <<>>

\* StringData["kubeconfig"] of the Secret built by StartBroadcaster.
KubeconfigData == "kubeconfig"
\* What a Secret left by an earlier run of another version may hold.
OtherData == "other"

NoAdv == [ex |-> FALSE, uid |-> 0, rv |-> 0, content |-> 0]
NoSec == [ex |-> FALSE, uid |-> 0, rv |-> 0, data |-> "none", owner |-> 0]

\* The Secret object StartBroadcaster builds: name, namespace and StringData,
\* no resourceVersion, no UID, no owner references.
NewKubeconfigSecret == [ex |-> TRUE, uid |-> 0, rv |-> 0, data |-> KubeconfigData, owner |-> 0]

\* The least positive token not in S: a token no object and no local copy holds.
FreshIn(S) == CHOOSE n \in 1..(Cardinality(S) + 1) : n \notin S /\ \A m \in 1..(n - 1) : m \in S

AdvUIDs == {adv.uid, advObj.uid, sec.owner, secretForeign.owner, kss.owner}
AdvRVs  == {adv.rv, advObj.rv}
SecUIDs == {sec.uid, secretForeign.uid, kss.uid}
SecRVs  == {sec.rv, secretForeign.rv, kss.rv}

\* update(record, versionToken): refused when the record is gone (NotFound) or
\* the token or the identity sent is not the stored one (Conflict).
UpdateAccepted(stored, sent) == stored.ex /\ sent.rv = stored.rv /\ sent.uid = stored.uid

\* create(record): refused when the record exists (AlreadyExists) or the object
\* sent carries a resourceVersion.
CreateAccepted(stored, sent) == ~stored.ex /\ sent.rv = 0

\* The object the store holds after an accepted write.
Stored(sent, uid, rv) == [sent EXCEPT !.ex = TRUE, !.uid = uid, !.rv = rv]

----------------------------------------------------------------------------
(* Call and return.                                                        *)

Goto(l) == pc' = l /\ UNCHANGED <<caller, calls, cur, envW, pubOk, logged, retrying, ret>>

NoCur == [advPre |-> FALSE, secPre |-> FALSE, stalePre |-> FALSE]

Begin(l) ==
    /\ pc' = l
    /\ cur' = [advPre |-> adv.ex, secPre |-> sec.ex, stalePre |-> (kss.rv # 0)]
    /\ envW' = FALSE
    /\ ret' = NilAdv
    /\ UNCHANGED <<caller, calls, pubOk, logged, retrying>>

\* The record of a call that is not worth keeping once a later call completed.
NoCall == [op |-> "none", res |-> "none", c |-> 0, branch |-> "none", fault |-> FALSE,
           secUpd |-> "none", advPre |-> FALSE, secPre |-> FALSE, stalePre |-> FALSE,
           envIn |-> FALSE]

\* A call that met no transport fault and no write of another actor.
Clean(rec) == ~rec.fault /\ ~rec.envIn

\* The history after call record rec: the call before it is kept when it was
\* a clean SendAdvertisementToForeignCluster that returned a nil error.
Record(rec) ==
    IF calls = <<>> THEN <<rec>>
    ELSE LET before == calls[Len(calls)] IN
         <<IF before.op = "publish" /\ before.res = "ok" /\ Clean(before)
           THEN before ELSE NoCall, rec>>

NoInfo == [branch |-> "none", fault |-> FALSE, secUpd |-> "none"]

CallRecord(m, r, info) ==
    [op |-> m, res |-> r, c |-> IF m = "publish" THEN advToCreate ELSE 0,
     branch |-> info.branch, fault |-> info.fault, secUpd |-> info.secUpd,
     advPre |-> cur.advPre, secPre |-> cur.secPre, stalePre |-> cur.stalePre,
     envIn |-> envW]

\* Where StartBroadcaster goes on after its SendSecretToForeignCluster.
AfterStartSecret(r) == IF r = "ok" THEN "secGet" ELSE "aborted"

\* A loop that goes on to the resources whatever SendSecretToForeignCluster
\* returned.
AfterLoopSecret_Regardless(r) == "getRes"

\* Where GenerateAdvertisement goes on after SendSecretToForeignCluster.
AfterLoopSecret(r) == IF r = "ok" THEN "getRes" ELSE "sleep1"

\* A loop that returns when SendAdvertisementToForeignCluster failed.
AfterLoopPublish_Returns(r) == IF r = "ok" THEN "spawn" ELSE "returned"

\* Where GenerateAdvertisement goes on after SendAdvertisementToForeignCluster.
AfterLoopPublish(r) == IF r = "ok" THEN "spawn" ELSE "sleep1"

\* A SendAdvertisementToForeignCluster that returns its adv beside an error too.
PublishResult_Always(r, a) == IF a.ex THEN AdvName(HomeClusterID) ELSE NilAdv

\* What SendAdvertisementToForeignCluster returns beside the error: nil on
\* every `return nil, err`, its adv on `return adv, nil`.
PublishResult(r, a) ==
    IF r = "ok" THEN (IF a.ex THEN AdvName(HomeClusterID) ELSE NilAdv) ELSE NilAdv

\* What the tick has logged last once method m returned r: the error returned,
\* or the error of the secret update that SendAdvertisementToForeignCluster
\* logs and does not return.
Logged(m, r, info) ==
    IF r = "err" THEN m
    ELSE IF info.secUpd = "err" THEN "ownerLink"
    ELSE "none"

\* Method m returns r to its caller; SendAdvertisementToForeignCluster's
\* deferred Unlock runs.
Return(m, r, info) ==
    /\ mutex' = IF m = "publish" THEN FALSE ELSE mutex
    /\ pubOk' = (pubOk \/ (caller # "api" /\ m = "publish" /\ r = "ok"))
    /\ ret' = IF m = "publish" THEN PublishResult(r, advObj) ELSE ret
    /\ logged' = IF caller = "loop" THEN Logged(m, r, info) ELSE logged
    /\ UNCHANGED retrying
    /\ advToCreate' = 0
    /\ advObj' = NoAdv
    /\ secretForeign' = NoSec
    /\ IF caller = "api"
       THEN /\ pc' = "idle"
            /\ calls' = Record(CallRecord(m, r, info))
            /\ cur' = NoCur
            /\ envW' = FALSE
            /\ caller' = caller
       ELSE /\ pc' = IF caller = "start" THEN AfterStartSecret(r)
                     ELSE IF m = "secret" THEN AfterLoopSecret(r)
                     ELSE AfterLoopPublish(r)
            /\ caller' = IF caller = "start" /\ r = "ok" THEN "loop" ELSE caller
            /\ UNCHANGED <<calls, cur, envW>>

----------------------------------------------------------------------------
(* SendSecretToForeignCluster                                              *)

\* The object sent by the update branch: the caller's Secret with the remote
\* resourceVersion and UID set on it.
SecretForUpdate(local, remote) == [local EXCEPT !.rv = remote.rv, !.uid = remote.uid]

\* A create branch that sends the caller's Secret as it is.
SecretForCreate_Uncleared(local) == local

\* The object sent by the create branch: resourceVersion and UID cleared.
SecretForCreate(local) == [local EXCEPT !.rv = 0, !.uid = 0]

SendSecret_Get ==
    /\ pc = "secGet"
    /\ \/ /\ sec.ex
          /\ secretForeign' = sec
          /\ Goto("secUpdate")
          /\ UNCHANGED <<mutex, advToCreate, advObj>>
       \/ /\ ~sec.ex
          /\ Goto("secCreate")
          /\ UNCHANGED <<mutex, advToCreate, advObj, secretForeign>>
       \/ Return("secret", "err", [NoInfo EXCEPT !.fault = TRUE])
    /\ UNCHANGED <<storeVars, kss, retry, goVars, sigVars, acctVars>>

SendSecret_Update ==
    /\ pc = "secUpdate"
    /\ kss' = SecretForUpdate(kss, secretForeign)
    /\ \/ /\ UpdateAccepted(sec, kss')
          /\ sec' = Stored(kss', sec.uid, FreshIn(SecRVs))
          /\ Return("secret", "ok", [NoInfo EXCEPT !.branch = "update"])
       \/ /\ ~UpdateAccepted(sec, kss')
          /\ Return("secret", "err", [NoInfo EXCEPT !.branch = "update"])
          /\ UNCHANGED sec
       \/ /\ Return("secret", "err", [NoInfo EXCEPT !.branch = "update", !.fault = TRUE])
          /\ UNCHANGED sec
    /\ UNCHANGED <<adv, retry, goVars, sigVars, acctVars>>

SendSecret_Create ==
    /\ pc = "secCreate"
    /\ kss' = SecretForCreate(kss)
    /\ \/ /\ CreateAccepted(sec, kss')
          /\ sec' = Stored(kss', FreshIn(SecUIDs), FreshIn(SecRVs))
          /\ Return("secret", "ok", [NoInfo EXCEPT !.branch = "create"])
       \/ /\ ~CreateAccepted(sec, kss')
          /\ Return("secret", "err", [NoInfo EXCEPT !.branch = "create"])
          /\ UNCHANGED sec
       \/ /\ Return("secret", "err", [NoInfo EXCEPT !.branch = "create", !.fault = TRUE])
          /\ UNCHANGED sec
    /\ UNCHANGED <<adv, retry, goVars, sigVars, acctVars>>

----------------------------------------------------------------------------
(* SendAdvertisementToForeignCluster                                       *)

\* An update branch that sends advToCreate with the metadata it was built with.
AdvForUpdate_OwnMeta(payload, remote) == [ex |-> TRUE, uid |-> 0, rv |-> 0, content |-> payload]

\* advToCreate after `advToCreate.ObjectMeta = adv.ObjectMeta`: the remote
\* object's metadata, the new payload.
AdvForUpdate(payload, remote) == [ex |-> TRUE, uid |-> remote.uid, rv |-> remote.rv, content |-> payload]

\* advToCreate as CreateAdvertisement built it: a name and a Spec.
AdvForCreate(payload) == [ex |-> TRUE, uid |-> 0, rv |-> 0, content |-> payload]

\* A secret update that sends secretForeign as it was fetched.
SecretOwnedBy_Unset(secret, owner) == secret

\* secretForeign after SetOwnerReferences(utils.GetOwnerReference(adv)).
SecretOwnedBy(secret, owner) == [secret EXCEPT !.owner = owner.uid]

SendAdv_Lock ==
    /\ pc = "advLock"
    /\ ~mutex
    /\ mutex' = TRUE
    /\ Goto("advGet")
    /\ UNCHANGED <<storeVars, kss, retry, advToCreate, advObj, secretForeign, goVars, sigVars, acctVars>>

\* The error a Get or a Delete of the object answers: "nil", "NotFound", or
\* another error.
Answers(obj) == IF obj.ex THEN {"nil", "other"} ELSE {"NotFound", "other"}

\* A test that takes every error for NotFound.
IsNotFound_AnyError(err) == err # "nil"

\* k8serrors.IsNotFound
IsNotFound(err) == err = "NotFound"

SendAdv_Get ==
    /\ pc = "advGet"
    /\ \E err \in Answers(adv) :
          IF err = "nil"
          THEN /\ advObj' = adv
               /\ Goto("advUpdate")
               /\ UNCHANGED <<mutex, advToCreate, secretForeign>>
          ELSE IF IsNotFound(err)
          THEN /\ Goto("advGetSecret")
               /\ UNCHANGED <<mutex, advToCreate, advObj, secretForeign>>
          ELSE Return("publish", "err", [NoInfo EXCEPT !.fault = TRUE])
    /\ UNCHANGED <<storeVars, kss, retry, goVars, sigVars, acctVars>>

SendAdv_Update ==
    /\ pc = "advUpdate"
    /\ LET sent == AdvForUpdate(advToCreate, advObj) IN
       \/ /\ UpdateAccepted(adv, sent)
          /\ adv' = Stored(sent, adv.uid, FreshIn(AdvRVs))
          /\ Return("publish", "ok", [NoInfo EXCEPT !.branch = "update"])
       \/ /\ ~UpdateAccepted(adv, sent)
          /\ Return("publish", "err", [NoInfo EXCEPT !.branch = "update"])
          /\ UNCHANGED adv
       \/ /\ Return("publish", "err", [NoInfo EXCEPT !.branch = "update", !.fault = TRUE])
          /\ UNCHANGED adv
    /\ UNCHANGED <<sec, kss, retry, goVars, sigVars, acctVars>>

\* A create branch that goes on whatever the Get of the secret answered.
SecretFetched_Unchecked(err) == TRUE

\* The create branch goes on when the Get of the secret answered no error.
SecretFetched(err) == err = "nil"

SendAdv_GetSecret ==
    /\ pc = "advGetSecret"
    /\ \E err \in Answers(sec) :
          IF SecretFetched(err)
          THEN /\ secretForeign' = IF err = "nil" THEN sec ELSE NoSec
               /\ Goto("advCreate")
               /\ UNCHANGED <<mutex, advToCreate, advObj>>
          ELSE Return("publish", "err",
                      [NoInfo EXCEPT !.branch = "create", !.fault = (err = "other")])
    /\ UNCHANGED <<storeVars, kss, retry, goVars, sigVars, acctVars>>

SendAdv_Create ==
    /\ pc = "advCreate"
    /\ LET sent == AdvForCreate(advToCreate) IN
       \/ /\ CreateAccepted(adv, sent)
          /\ adv' = Stored(sent, FreshIn(AdvUIDs), FreshIn(AdvRVs))
          /\ advObj' = adv'
          /\ Goto("advOwnSecret")
          /\ UNCHANGED <<mutex, advToCreate, secretForeign>>
       \/ /\ ~CreateAccepted(adv, sent)
          /\ Return("publish", "err", [NoInfo EXCEPT !.branch = "create"])
          /\ UNCHANGED adv
       \/ /\ Return("publish", "err", [NoInfo EXCEPT !.branch = "create", !.fault = TRUE])
          /\ UNCHANGED adv
    /\ UNCHANGED <<sec, kss, retry, goVars, sigVars, acctVars>>

\* A create branch that returns the error of the secret's update.
AfterOwnerUpdate_Fatal(updErr) == IF updErr = "nil" THEN "ok" ELSE "err"

\* What the create branch returns after the secret's update: its error is
\* logged and `return adv, nil` is reached all the same.
AfterOwnerUpdate(updErr) == "ok"

SendAdv_UpdateSecret ==
    /\ pc = "advOwnSecret"
    /\ LET sent == SecretOwnedBy(secretForeign, advObj) IN
       \/ /\ UpdateAccepted(sec, sent)
          /\ sec' = Stored(sent, sec.uid, FreshIn(SecRVs))
          /\ Return("publish", AfterOwnerUpdate("nil"),
                    [NoInfo EXCEPT !.branch = "create", !.secUpd = "ok"])
       \/ /\ ~UpdateAccepted(sec, sent)
          /\ Return("publish", AfterOwnerUpdate("refused"),
                    [NoInfo EXCEPT !.branch = "create", !.secUpd = "err"])
          /\ UNCHANGED sec
       \/ /\ Return("publish", AfterOwnerUpdate("other"),
                    [NoInfo EXCEPT !.branch = "create", !.secUpd = "err", !.fault = TRUE])
          /\ UNCHANGED sec
    /\ UNCHANGED <<adv, kss, retry, goVars, sigVars, acctVars>>

----------------------------------------------------------------------------
(* NotifyAdvertisementDeletion                                             *)

\* A NotifyAdvertisementDeletion that names the advertisement by the cluster
\* ID alone.
DeletedAdvName_NoPrefix(id) == id

\* advName := pkg.AdvertisementPrefix + b.HomeClusterID
DeletedAdvName(id) == AdvertisementPrefix \o id

\* The error Delete answers: "nil", "NotFound", or another error; it finds the
\* advertisement when the name it is given is the advertisement's.
DeleteAnswers ==
    IF adv.ex /\ DeletedAdvName(HomeClusterID) = AdvName(HomeClusterID)
    THEN {"nil", "other"} ELSE {"NotFound", "other"}

\* What NotifyAdvertisementDeletion returns for Delete's error.
NotifyResult(delErr) == IF delErr # "nil" THEN "err" ELSE "ok"

----------------------------------------------------------------------------
(* The remote cluster's own actors.                                        *)

\* Somebody on the remote cluster deletes the advertisement.
PeerDeletesAdvertisement ==
    /\ adv.ex
    /\ pc \notin {"createClient", "aborted"}
    /\ adv' = NoAdv
    /\ envW' = (caller = "api")
    /\ UNCHANGED <<sec, localVars, pc, caller, calls, cur, pubOk, logged, retrying, ret, goVars, sigVars, acctVars>>

\* The remote garbage collector deletes a secret whose owner is gone.
GarbageCollectSecret ==
    /\ sec.ex
    /\ sec.owner # 0
    /\ ~(adv.ex /\ adv.uid = sec.owner)
    /\ pc \notin {"createClient", "aborted"}
    /\ sec' = NoSec
    /\ envW' = (caller = "api")
    /\ UNCHANGED <<adv, localVars, pc, caller, calls, cur, pubOk, logged, retrying, ret, goVars, sigVars, acctVars>>

----------------------------------------------------------------------------
(* SpecAPI: the exported methods, called one after another.                *)

Api_SendSecretToForeignCluster ==
    /\ pc = "idle"
    /\ Begin("secGet")
    /\ UNCHANGED <<storeVars, localVars, goVars, sigVars, acctVars>>

Api_SendAdvertisementToForeignCluster ==
    /\ pc = "idle"
    /\ \E c \in Contents : advToCreate' = c
    /\ Begin("advLock")
    /\ UNCHANGED <<storeVars, kss, mutex, retry, advObj, secretForeign, goVars, sigVars, acctVars>>

Api_NotifyAdvertisementDeletion ==
    /\ pc = "idle"
    /\ \E delErr \in DeleteAnswers :
          /\ adv' = IF delErr = "nil" THEN NoAdv ELSE adv
          /\ calls' = Record(
                [op |-> "retract", res |-> NotifyResult(delErr), c |-> 0,
                 branch |-> "none", fault |-> (delErr = "other"), secUpd |-> "none",
                 advPre |-> adv.ex, secPre |-> sec.ex, stalePre |-> (kss.rv # 0),
                 envIn |-> FALSE])
    /\ envW' = FALSE
    /\ ret' = NilAdv
    /\ UNCHANGED <<sec, localVars, pc, caller, cur, pubOk, logged, retrying, goVars, sigVars, acctVars>>

\* The remote states a broadcaster may find: no advertisement, or one left by
\* an earlier run.
InitAdvs == {NoAdv} \cup {[ex |-> TRUE, uid |-> 1, rv |-> 1, content |-> c] : c \in Contents}

\* No secret, or one left by an earlier run, with or without an owner
\* reference; owner 1 is the advertisement of InitAdvs, owner 2 one that is gone.
InitSecs ==
    {NoSec} \cup {[ex |-> TRUE, uid |-> 1, rv |-> 1, data |-> d, owner |-> o] :
                    d \in {KubeconfigData, OtherData}, o \in {0, 1, 2}}

\* The broadcaster as StartBroadcaster builds it, nothing called yet.
InitBroadcaster ==
    /\ kss = NewKubeconfigSecret
    /\ mutex = FALSE
    /\ retry = 0
    /\ advToCreate = 0
    /\ advObj = NoAdv
    /\ secretForeign = NoSec
    /\ calls = <<>>
    /\ cur = NoCur
    /\ envW = FALSE
    /\ pubOk = FALSE
    /\ logged = "none"
    /\ retrying = FALSE
    /\ ret = NilAdv
    /\ once = "fresh"
    /\ pendingDo = 0
    /\ blockedDo = 0
    /\ watchRuns = 0
    /\ retPc = "idle"
    /\ stopReq = FALSE

InitCommon ==
    /\ InitBroadcaster
    /\ adv \in InitAdvs
    /\ sec \in InitSecs
    /\ podList = <<>>
    /\ requests = <<>>
    /\ limits = <<>>
    /\ acctPc = "off"

InitAPI ==
    /\ InitCommon
    /\ pc = "idle"
    /\ caller = "api"

NextAPI ==
    \/ Api_SendSecretToForeignCluster
    \/ Api_SendAdvertisementToForeignCluster
    \/ Api_NotifyAdvertisementDeletion
    \/ SendSecret_Get
    \/ SendSecret_Update
    \/ SendSecret_Create
    \/ SendAdv_Lock
    \/ SendAdv_Get
    \/ SendAdv_Update
    \/ SendAdv_GetSecret
    \/ SendAdv_Create
    \/ SendAdv_UpdateSecret
    \/ PeerDeletesAdvertisement
    \/ GarbageCollectSecret

SpecAPI == InitAPI /\ [][NextAPI]_vars

----------------------------------------------------------------------------
(* StartBroadcaster and GenerateAdvertisement.                             *)

\* Attempts StartBroadcaster makes to create the remote client.
MaxRetry == 3

\* for retry = 0; retry < 3; retry++: an attempt succeeds and breaks, or fails
\* and, after the pause, counts.
StartBroadcaster_CreateClient ==
    /\ pc = "createClient"
    /\ retry < MaxRetry
    /\ \/ /\ pc' = "secGet"
          /\ UNCHANGED retry
       \/ /\ retry' = retry + 1
          /\ UNCHANGED pc
    /\ UNCHANGED <<storeVars, kss, mutex, advToCreate, advObj, secretForeign,
                   caller, calls, cur, envW, pubOk, logged, retrying, ret, goVars, sigVars, acctVars>>

\* A StartBroadcaster that goes on without a client.
StartBroadcaster_GiveUp_GoesOn ==
    /\ pc = "createClient"
    /\ retry = MaxRetry
    /\ pc' = "secGet"
    /\ UNCHANGED <<storeVars, localVars, caller, calls, cur, envW, pubOk, logged, retrying, ret, goVars, sigVars, acctVars>>

\* if retry == 3: return err.
StartBroadcaster_GiveUp ==
    /\ pc = "createClient"
    /\ retry = MaxRetry
    /\ pc' = "aborted"
    /\ UNCHANGED <<storeVars, localVars, caller, calls, cur, envW, pubOk, logged, retrying, ret, goVars, sigVars, acctVars>>

\* GetResourcesForAdv fails, or it succeeds and CreateAdvertisement builds the
\* advertisement handed to SendAdvertisementToForeignCluster.
Gen_GetResourcesForAdv ==
    /\ pc = "getRes"
    /\ \/ /\ pc' = "sleep1"
          /\ logged' = "resources"
          /\ UNCHANGED advToCreate
       \/ /\ \E c \in Contents : advToCreate' = c
          /\ pc' = "advLock"
          /\ UNCHANGED logged
    /\ UNCHANGED <<storeVars, kss, mutex, retry, advObj, secretForeign,
                   caller, calls, cur, envW, pubOk, retrying, ret, goVars, sigVars, acctVars>>

\* go once.Do(func() { b.WatchAdvertisement(adv.Name) })
Gen_GoOnceDo ==
    /\ pc = "spawn"
    /\ pendingDo + blockedDo < MaxGo
    /\ pendingDo' = pendingDo + 1
    /\ pc' = "sleep10"
    /\ UNCHANGED <<storeVars, localVars, caller, calls, cur, envW, pubOk, logged, retrying, ret,
                   once, blockedDo, watchRuns, sigVars, acctVars>>

\* time.Sleep(1 * time.Minute); continue, and time.Sleep(10 * time.Minute):
\* the next iteration starts, the adv and the err of the last one are out of
\* scope.
Gen_Wake ==
    /\ pc \in {"sleep1", "sleep10"}
    /\ pc' = "secGet"
    /\ ret' = NilAdv
    /\ logged' = "none"
    /\ retrying' = (pc = "sleep1")
    /\ UNCHANGED <<storeVars, localVars, caller, calls, cur, envW, pubOk, goVars, sigVars, acctVars>>

\* A once.Do that runs its function every time.
OnceRuns_Always(o) == TRUE

\* once.Do runs its function when no call of it has begun to.
OnceRuns(o) == o = "fresh"

\* A spawned goroutine enters once.Do and runs WatchAdvertisement.
Go_OnceDo_Run ==
    /\ pendingDo > 0
    /\ OnceRuns(once)
    /\ once' = "running"
    /\ watchRuns' = IF watchRuns < 2 THEN watchRuns + 1 ELSE watchRuns
    /\ pendingDo' = pendingDo - 1
    /\ UNCHANGED <<storeVars, localVars, ctlVars, blockedDo, sigVars, acctVars>>

\* A spawned goroutine enters once.Do while the first call's function runs:
\* it waits for that call to return.
Go_OnceDo_Wait ==
    /\ pendingDo > 0
    /\ ~OnceRuns(once)
    /\ once = "running"
    /\ pendingDo' = pendingDo - 1
    /\ blockedDo' = blockedDo + 1
    /\ UNCHANGED <<storeVars, localVars, ctlVars, once, watchRuns, sigVars, acctVars>>

\* A spawned goroutine enters once.Do after the first call returned: it
\* returns at once.
Go_OnceDo_Skip ==
    /\ pendingDo > 0
    /\ ~OnceRuns(once)
    /\ once = "done"
    /\ pendingDo' = pendingDo - 1
    /\ UNCHANGED <<storeVars, localVars, ctlVars, once, blockedDo, watchRuns, sigVars, acctVars>>

\* WatchAdvertisement returns: the first once.Do returns, and with it the
\* calls that waited for it.
Go_WatchReturns ==
    /\ once = "running"
    /\ once' = "done"
    /\ blockedDo' = 0
    /\ UNCHANGED <<storeVars, localVars, ctlVars, pendingDo, watchRuns, sigVars, acctVars>>

\* Another goroutine calls NotifyAdvertisementDeletion on the broadcaster.
Sig_NotifyAdvertisementDeletion ==
    /\ retPc = "idle"
    /\ pc \notin {"createClient", "aborted"}
    /\ \E delErr \in DeleteAnswers : adv' = IF delErr = "nil" THEN NoAdv ELSE adv
    /\ retPc' = "called"
    /\ UNCHANGED <<sec, localVars, ctlVars, goVars, stopReq, acctVars>>

Sig_NotifyReturns ==
    /\ retPc = "called"
    /\ retPc' = "idle"
    /\ UNCHANGED <<storeVars, localVars, ctlVars, goVars, stopReq, acctVars>>

\* The process is asked to stop.
Sig_StopRequest ==
    /\ ~stopReq
    /\ pc # "aborted"
    /\ stopReq' = TRUE
    /\ UNCHANGED <<storeVars, localVars, ctlVars, goVars, retPc, acctVars>>

Init ==
    /\ InitCommon
    /\ pc = "createClient"
    /\ caller = "start"

Next ==
    \/ StartBroadcaster_CreateClient
    \/ StartBroadcaster_GiveUp
    \/ SendSecret_Get
    \/ SendSecret_Update
    \/ SendSecret_Create
    \/ Gen_GetResourcesForAdv
    \/ SendAdv_Lock
    \/ SendAdv_Get
    \/ SendAdv_Update
    \/ SendAdv_GetSecret
    \/ SendAdv_Create
    \/ SendAdv_UpdateSecret
    \/ Gen_GoOnceDo
    \/ Gen_Wake
    \/ Go_OnceDo_Run
    \/ Go_OnceDo_Wait
    \/ Go_OnceDo_Skip
    \/ Go_WatchReturns
    \/ Sig_NotifyAdvertisementDeletion
    \/ Sig_NotifyReturns
    \/ Sig_StopRequest
    \/ PeerDeletesAdvertisement
    \/ GarbageCollectSecret

Spec == Init /\ [][Next]_vars

\* The Go scheduler runs every goroutine that can run: the loop goes on, and
\* a spawned goroutine enters once.Do.
FairSpec ==
    /\ Spec
    /\ WF_vars(Gen_GoOnceDo)
    /\ WF_vars(Go_OnceDo_Run)

\* A step of the thread that runs GenerateAdvertisement, but for its spawning
\* of a goroutine.
LoopThread ==
    \/ SendSecret_Get
    \/ SendSecret_Update
    \/ SendSecret_Create
    \/ Gen_GetResourcesForAdv
    \/ SendAdv_Lock
    \/ SendAdv_Get
    \/ SendAdv_Update
    \/ SendAdv_GetSecret
    \/ SendAdv_Create
    \/ SendAdv_UpdateSecret
    \/ Gen_Wake

\* The broadcaster and the remote cluster's actors, without the caller of
\* NotifyAdvertisementDeletion, whose delete is to the remote store what
\* PeerDeletesAdvertisement is, and without the stop request, which no
\* statement of the broadcaster reads.
NextLive ==
    \/ StartBroadcaster_CreateClient
    \/ StartBroadcaster_GiveUp
    \/ LoopThread
    \/ Gen_GoOnceDo
    \/ Go_OnceDo_Run
    \/ Go_OnceDo_Wait
    \/ Go_OnceDo_Skip
    \/ Go_WatchReturns
    \/ PeerDeletesAdvertisement
    \/ GarbageCollectSecret

\* The loop's own thread is scheduled too: every call it makes returns and
\* every sleep ends.
LiveSpec ==
    /\ Init
    /\ [][NextLive]_vars
    /\ WF_vars(LoopThread)
    /\ WF_vars(Gen_GoOnceDo)
    /\ WF_vars(Go_OnceDo_Run)

----------------------------------------------------------------------------
(* GetAllPodsResources and getPodsTotalRequestsAndLimits.                  *)

ResourceNames == {"cpu", "memory"}

\* A corev1.ResourceList: quantities of some of the resource classes.
ResourceLists ==
    UNION {[names -> 1..MaxQty] : names \in SUBSET ResourceNames}

\* Node names, as the characters they are made of.
NameWorker     == <<"w", "o", "r", "k", "e", "r">>
NameLiqoWorker == <<"l", "i", "q", "o", "-", "w", "o", "r", "k", "e", "r">>
NameLiqoPeer   == <<"l", "i", "q", "o", "-", "p", "e", "e", "r">>

\* The nodes of the local cluster; `virtual` is the label liqo.io/type =
\* virtual-node, by which GetResourcesForAdv lists the virtual nodes.  A virtual
\* node is named liqo-<cluster id>; a physical node has the name its cluster
\* gave it.
Nodes ==
    { [name |-> NameWorker,     virtual |-> FALSE],
      [name |-> NameLiqoWorker, virtual |-> FALSE],
      [name |-> NameLiqoPeer,   virtual |-> TRUE] }

VirtualNodeNames == {n.name : n \in {m \in Nodes : m.virtual}}

\* strings.HasPrefix
HasPrefix(s, prefix) == Len(s) >= Len(prefix) /\ SubSeq(s, 1, Len(prefix)) = prefix

LiqoPrefix == <<"l", "i", "q", "o", "-">>

\* A pod as GetAllPodsResources reads it: Spec.NodeName, whether Labels holds
\* forge.LiqoOutgoingKey, and what PodRequestsAndLimits answers for it.
Pods ==
    [nodeName : {n.name : n \in Nodes}, outgoing : BOOLEAN,
     reqs : ResourceLists, limits : ResourceLists]

\* corev1.Pod{}
EmptyPod == [nodeName |-> <<>>, outgoing |-> FALSE, reqs |-> <<>>, limits |-> <<>>]

\* The test by which GetAllPodsResources blanks an item.
Removed(pod) == HasPrefix(pod.nodeName, LiqoPrefix) \/ pod.outgoing

\* The list after the first loop of GetAllPodsResources.
Blanked(items) == [i \in DOMAIN items |-> IF Removed(items[i]) THEN EmptyPod ELSE items[i]]

\* One pass of the inner loops: a class seen first takes the pod's quantity,
\* a class seen before adds it.
AddInto(total, rl) ==
    [n \in DOMAIN total \cup DOMAIN rl |->
        IF n \notin DOMAIN total THEN rl[n]
        ELSE IF n \in DOMAIN rl THEN total[n] + rl[n]
        ELSE total[n]]

RECURSIVE TotalRequests(_)
TotalRequests(items) ==
    IF items = <<>> THEN <<>>
    ELSE AddInto(TotalRequests(SubSeq(items, 1, Len(items) - 1)), items[Len(items)].reqs)

RECURSIVE TotalLimits(_)
TotalLimits(items) ==
    IF items = <<>> THEN <<>>
    ELSE AddInto(TotalLimits(SubSeq(items, 1, Len(items) - 1)), items[Len(items)].limits)

Acct_GetAllPodsResources ==
    /\ acctPc = "input"
    /\ podList' = Blanked(podList)
    /\ requests' = TotalRequests(podList')
    /\ limits' = TotalLimits(podList')
    /\ acctPc' = "done"
    /\ UNCHANGED <<storeVars, localVars, ctlVars, goVars, sigVars>>

PodLists == UNION {[1..n -> Pods] : n \in 0..MaxPods}

InitAcct ==
    /\ InitBroadcaster
    /\ adv = NoAdv
    /\ sec = NoSec
    /\ pc = "off"
    /\ caller = "acct"
    /\ podList \in PodLists
    /\ requests = <<>>
    /\ limits = <<>>
    /\ acctPc = "input"

NextAcct == Acct_GetAllPodsResources

SpecAcct == InitAcct /\ [][NextAcct]_vars

----------------------------------------------------------------------------
(* Properties of the exported methods, under SpecAPI.                      *)

Last == calls[Len(calls)]
Prev == calls[1]

\* A call has returned and nobody wrote to the remote store since.
JustReturned == pc = "idle" /\ calls # <<>> /\ ~envW

\* The call before the last one was a clean, successful publish.
AfterPublish == Len(calls) = 2 /\ Prev.op = "publish"

\* C1: a publish that meets no fault and no other writer succeeds when the
\* credential secret exists, and the advertisement then holds the published
\* content; a second publish of the same content right after a successful one
\* also succeeds, by the update branch, and the one advertisement still holds
\* that content.
C1_PublishTwiceIdempotent ==
    (JustReturned /\ Last.op = "publish" /\ Clean(Last)) =>
        /\ Last.secPre => (Last.res = "ok" /\ adv.ex /\ adv.content = Last.c)
        /\ (AfterPublish /\ Prev.c = Last.c /\ Last.advPre) =>
              /\ Last.res = "ok"
              /\ Last.branch = "update"
              /\ adv.ex
              /\ adv.content = Prev.c

C1_Witness ==
    /\ JustReturned
    /\ AfterPublish
    /\ Prev.branch = "create"
    /\ Last.op = "publish"
    /\ Clean(Last)
    /\ Last.advPre
    /\ Last.c = Prev.c
    /\ Last.branch = "update"
    /\ adv.content = Last.c

\* C2, as claimed: after a creation by publishAdvertisement the remote secret's
\* owner reference is the created advertisement.
C2_OwnerAfterCreate ==
    (JustReturned /\ Last.op = "publish" /\ Last.res = "ok" /\ Last.branch = "create"
        /\ ~Last.envIn) =>
        (sec.ex /\ adv.ex /\ sec.owner = adv.uid)

\* C2, amended: when the update of the secret that follows the creation is
\* accepted, the secret it writes carries the created advertisement as owner.
C2_OwnerWhenSecretUpdated ==
    [][(pc = "advOwnSecret" /\ pc' # "advOwnSecret" /\ sec' # sec) =>
          (sec'.ex /\ advObj.ex /\ sec'.owner = advObj.uid
            /\ sec'.uid = sec.uid /\ sec'.data = sec.data)]_vars

C2_Witness ==
    /\ JustReturned
    /\ Last.op = "publish"
    /\ Last.branch = "create"
    /\ Last.secUpd = "ok"
    /\ adv.ex
    /\ sec.owner = adv.uid

\* C4, as claimed: retractAdvertisement called when no advertisement exists
\* (the delete answers NotFound) returns success.
C4_RetractMissingSucceeds ==
    (pc = "idle" /\ calls # <<>> /\ Last.op = "retract" /\ ~Last.advPre /\ ~Last.fault) =>
        Last.res = "ok"

\* C5, as claimed: after a publish that created the advertisement and linked
\* the secret, a deletion of the advertisement on the remote store and what the
\* garbage collector then does, a second publish succeeds by recreating the
\* advertisement, and the secret is owned by the recreated advertisement.
C5_RecreateAfterDeletion ==
    (JustReturned /\ AfterPublish /\ Prev.branch = "create" /\ Prev.secUpd = "ok"
        /\ Last.op = "publish" /\ Clean(Last) /\ ~Last.advPre) =>
        /\ Last.res = "ok"
        /\ Last.branch = "create"
        /\ adv.ex
        /\ sec.ex
        /\ sec.owner = adv.uid

\* C9: a publishCredential that meets no fault and no other writer succeeds
\* from every remote state, the remote secret then holds the local kubeconfig,
\* the update branch is taken exactly when the secret was there and leaves the
\* remote identity on the local object, and the create branch is taken exactly
\* when it was not and leaves version and identity of the local object empty.
C9_SecretFetchCreateUpdate ==
    (JustReturned /\ Last.op = "secret" /\ Clean(Last)) =>
        /\ Last.res = "ok"
        /\ sec.ex
        /\ sec.data = KubeconfigData
        /\ Last.branch = (IF Last.secPre THEN "update" ELSE "create")
        /\ Last.branch = "update" => (kss.uid = sec.uid /\ kss.rv \notin {0, sec.rv})
        /\ Last.branch = "create" => (kss.uid = 0 /\ kss.rv = 0 /\ sec.uid # 0)

C9_Witness ==
    /\ JustReturned
    /\ Last.op = "secret"
    /\ Clean(Last)
    /\ Last.stalePre
    /\ Last.branch = "create"
    /\ Last.res = "ok"
    /\ sec.data = KubeconfigData

\* C13: the update branch, entered when the get found the advertisement, sends
\* the metadata just read, which is the stored one as long as nobody else
\* wrote; an accepted update leaves the same remote object (same identity, a
\* new version) with the new payload and returns it, a run without fault and
\* without other writer is accepted, and a refused or failed update returns an
\* error and no advertisement and leaves the remote record as it was; the
\* secret is not written and nothing is created.
C13_UpdateBranch ==
    /\ []((pc = "advUpdate" /\ ~envW) => (advObj = adv /\ adv.ex))
    /\ [][(pc = "advUpdate" /\ pc' # pc) =>
             LET done == calls'[Len(calls')] IN
             /\ pc' = "idle"
             /\ done.op = "publish"
             /\ done.branch = "update"
             /\ sec' = sec
             /\ (~done.fault /\ ~done.envIn) => done.res = "ok"
             /\ done.res = "ok" =>
                   /\ adv.ex /\ advObj.uid = adv.uid /\ advObj.rv = adv.rv
                   /\ adv'.ex /\ adv'.uid = adv.uid /\ adv'.rv \notin {0, adv.rv}
                   /\ adv'.content = advToCreate
                   /\ ret' = AdvName(HomeClusterID)
             /\ done.res # "ok" =>
                   /\ done.res = "err"
                   /\ adv' = adv
                   /\ ret' = NilAdv]_vars

C13_Witness ==
    /\ JustReturned
    /\ Last.op = "publish"
    /\ Last.branch = "update"
    /\ Last.res = "err"
    /\ ret = NilAdv
    /\ adv.ex
    /\ adv.content # Last.c

\* C14: from the get of the advertisement the call goes to the update branch
\* only when the advertisement is there and to the create branch only when it
\* is not; on any other answer it returns an error and no advertisement at
\* once, and neither the advertisement nor the secret is written.
C14_UnexpectedFetchError ==
    [][(pc = "advGet" /\ pc' # pc) =>
          \/ /\ pc' = "advUpdate"
             /\ adv.ex
             /\ storeVars' = storeVars
          \/ /\ pc' = "advGetSecret"
             /\ ~adv.ex
             /\ storeVars' = storeVars
          \/ /\ pc' = "idle"
             /\ LET done == calls'[Len(calls')] IN
                   /\ done.op = "publish"
                   /\ done.res = "err"
                   /\ done.fault
                   /\ done.branch = "none"
                   /\ done.secUpd = "none"
             /\ ret' = NilAdv
             /\ ~mutex'
             /\ storeVars' = storeVars]_vars

C14_Witness ==
    /\ JustReturned
    /\ Last.op = "publish"
    /\ Last.branch = "none"
    /\ Last.fault
    /\ Last.res = "err"
    /\ ~Last.envIn
    /\ ~Last.advPre
    /\ ~adv.ex
    /\ sec.ex
    /\ sec.owner = 0

\* C19: NotifyAdvertisementDeletion deletes by the name CreateAdvertisement
\* gives the advertisement; called after a successful publish, with the
\* advertisement there and no fault, it succeeds, and after a successful
\* retract no advertisement is on the remote store.
C19_PublishThenRetract ==
    /\ DeletedAdvName(HomeClusterID) = AdvName(HomeClusterID)
    /\ (pc = "idle" /\ calls # <<>> /\ Last.op = "retract") =>
          /\ (Last.advPre /\ ~Last.fault) => Last.res = "ok"
          /\ Last.res = "ok" => (Last.advPre /\ ~adv.ex)

C19_Witness ==
    /\ pc = "idle"
    /\ AfterPublish
    /\ Prev.branch = "create"
    /\ Last.op = "retract"
    /\ Last.advPre
    /\ Last.res = "ok"
    /\ ~adv.ex

----------------------------------------------------------------------------
(* Properties of the running broadcaster, under Spec and FairSpec.         *)

\* The remote secret carries an owner reference to the live advertisement.
Linked == sec.ex /\ adv.ex /\ sec.owner = adv.uid

InPublishSequence == pc \in {"advUpdate", "advGetSecret", "advCreate", "advOwnSecret"}

Sleeping == pc \in {"sleep1", "sleep10"}

\* C3, as claimed: once the secret is owned by the live advertisement, no step
\* of the control loop's ticks takes the owner reference away while that
\* advertisement lives.
C3_OwnerLinkPreserved ==
    [][(caller = "loop" /\ Linked /\ adv'.ex /\ adv'.uid = adv.uid) => Linked']_vars

\* C6: WatchAdvertisement runs at most once and not before a publish returned
\* success; after a publish has returned success it does run, whatever the
\* later ticks do.
C6_WatchExactlyOnce ==
    /\ [](watchRuns <= 1)
    /\ [](watchRuns >= 1 => pubOk)
    /\ (pubOk ~> watchRuns = 1)

C6_Witness ==
    /\ watchRuns = 1
    /\ pubOk
    /\ once = "done"
    /\ pc = "sleep1"
    /\ pendingDo + blockedDo > 0

\* C7, as claimed: a delete issued by NotifyAdvertisementDeletion does not take
\* effect between the remote get of a publish and its following create, update
\* and secret-update steps.
C7_RetractNotInsidePublish ==
    [][(retPc = "idle" /\ retPc' = "called" /\ adv.ex /\ ~adv'.ex) => ~InPublishSequence]_vars

\* C8, as claimed: with a stop request made, the loop goes neither into a
\* sleep nor from a sleep into a next tick but terminates, and it terminates
\* only on a stop request.
C8_StopAtTickBoundary ==
    /\ [][(caller = "loop" /\ stopReq /\ pc' # pc /\ (Sleeping \/ Sleeping')) =>
            pc' = "terminated"]_vars
    /\ [](pc = "terminated" => stopReq)

SecretSteps == {"secGet", "secUpdate", "secCreate"}

PublishSteps == {"advLock", "advGet", "advUpdate", "advGetSecret", "advCreate", "advOwnSecret"}

LoopSteps == SecretSteps \cup {"getRes"} \cup PublishSteps \cup {"spawn", "sleep1", "sleep10"}

\* C11: in a tick the resources are computed only as the step after a
\* publishCredential that wrote the remote secret, and publishAdvertisement is
\* entered only from the computed resources; a failed publishCredential leads
\* straight to the 1-minute pause with the remote store as it was, every
\* failure leads to that pause, and after the pause the next tick starts at
\* publishCredential.
C11_TickOrdering ==
    [][(caller = "loop" /\ pc' # pc) =>
          /\ pc' = "getRes" =>
                (pc \in {"secUpdate", "secCreate"} /\ sec'.ex /\ sec' # sec
                   /\ sec'.data = KubeconfigData)
          /\ pc' = "advLock" => pc = "getRes"
          /\ pc' \in PublishSteps \ {"advLock"} => pc \in PublishSteps
          /\ (pc \in SecretSteps /\ pc' \notin SecretSteps \cup {"getRes"}) =>
                (pc' = "sleep1" /\ logged' = "secret" /\ adv' = adv /\ sec' = sec)
          /\ (pc = "getRes" /\ pc' # "advLock") =>
                (pc' = "sleep1" /\ logged' = "resources" /\ adv' = adv /\ sec' = sec)
          /\ (pc \in PublishSteps /\ pc' \notin PublishSteps \cup {"spawn"}) =>
                (pc' = "sleep1" /\ logged' = "publish")
          /\ pc \in {"sleep1", "sleep10"} => pc' = "secGet"]_vars

C11_Witness ==
    /\ caller = "loop"
    /\ pc = "sleep1"
    /\ logged = "secret"
    /\ ~pubOk
    /\ ~adv.ex
    /\ advToCreate = 0

\* A tick of the loop fails.
TickFails == caller = "loop" /\ pc # "sleep1" /\ pc' = "sleep1"

\* C12: GenerateAdvertisement never leaves its loop, every failure of a tick
\* is followed by the pause and the next tick, and when the ticks stop failing
\* from some point on, the advertisement comes to exist on the remote store
\* after a successful publish and WatchAdvertisement is started.
C12_FailuresAreRetried ==
    /\ [](caller = "loop" => pc \in LoopSteps)
    /\ [][TickFails => logged' \in {"secret", "resources", "publish"}]_vars
    /\ [][(caller = "loop" /\ pc = "sleep1" /\ pc' # pc) => (pc' = "secGet" /\ retrying')]_vars
    /\ \/ [](caller # "loop")
       \/ []<><<TickFails>>_vars
       \/ (<>(pubOk /\ adv.ex) /\ <>(watchRuns >= 1))

C12_Witness ==
    /\ caller = "loop"
    /\ pc = "sleep10"
    /\ retrying
    /\ pubOk
    /\ adv.ex
    /\ watchRuns = 1

\* C15: when the create branch has created the advertisement and the update
\* of the secret that follows is not accepted, the secret stays as it was,
\* without a reference to the created advertisement, the call does not touch
\* the advertisement and returns it with a nil error, and the loop goes on as
\* after every successful publish: it spawns the goroutine of once.Do, sleeps
\* the full period and starts the next tick, which is not a retry.
C15_OwnerLinkDegradedNonFatal ==
    /\ [][(pc = "advCreate" /\ pc' = "advOwnSecret") =>
             (adv'.ex /\ advObj' = adv' /\ sec.owner # adv'.uid)]_vars
    /\ [][(caller = "loop" /\ pc = "advOwnSecret" /\ pc' # pc /\ sec' = sec) =>
             /\ pc' = "spawn"
             /\ logged' = "ownerLink"
             /\ ret' = AdvName(HomeClusterID)
             /\ pubOk'
             /\ adv' = adv
             /\ sec'.owner # advObj.uid]_vars
    /\ [][(caller = "loop" /\ pc = "spawn" /\ pc' # pc) =>
             (pc' = "sleep10" /\ pendingDo' = pendingDo + 1 /\ logged' = logged)]_vars
    /\ [][(caller = "loop" /\ pc = "sleep10" /\ pc' # pc) =>
             (pc' = "secGet" /\ ~retrying')]_vars

C15_Witness ==
    /\ caller = "loop"
    /\ pc = "sleep10"
    /\ logged = "ownerLink"
    /\ adv.ex
    /\ sec.ex
    /\ sec.owner # adv.uid
    /\ watchRuns = 1

\* C16: in the create branch the advertisement is created only after the get
\* of the remote secret answered the secret; when that get fails, NotFound
\* included, the call returns an error and no advertisement and writes
\* nothing; and every creation of the advertisement by the broadcaster
\* happens while the secret exists on the remote store.
C16_SecretBeforeAdvertisement ==
    /\ [][(pc = "advGetSecret" /\ pc' # pc) =>
             \/ /\ sec.ex
                /\ pc' = "advCreate"
                /\ secretForeign' = sec
                /\ storeVars' = storeVars
             \/ /\ pc' = "sleep1"
                /\ logged' = "publish"
                /\ ret' = NilAdv
                /\ storeVars' = storeVars]_vars
    /\ [](pc = "advCreate" => secretForeign.ex)
    /\ [][(pc = "advCreate" /\ ~adv.ex /\ adv'.ex) => (sec.ex /\ sec.uid = secretForeign.uid)]_vars
    /\ [][(~adv.ex /\ adv'.ex) => pc = "advCreate"]_vars

C16_Witness ==
    /\ caller = "loop"
    /\ pc = "advOwnSecret"
    /\ ~retrying
    /\ adv.ex
    /\ advObj = adv
    /\ sec.ex
    /\ secretForeign = sec

\* C17: StartBroadcaster counts a failed attempt to create the client and
\* makes none once three have failed; an attempt that succeeds ends the
\* retrying with the count as it is and no attempt is made after it; after
\* three failures StartBroadcaster returns, with the broadcaster never used:
\* no secret sent, no tick run, the remote store never written.
C17_BoundedBootstrapRetry ==
    /\ [](retry <= 3)
    /\ [][/\ retry' # retry =>
                (pc = "createClient" /\ pc' = "createClient" /\ retry < 3 /\ retry' = retry + 1)
          /\ (pc = "createClient" /\ pc' # pc) =>
                \/ (pc' = "secGet" /\ retry < 3 /\ retry' = retry)
                \/ (pc' = "aborted" /\ retry = 3 /\ retry' = retry)
          /\ pc # "createClient" => pc' # "createClient"
          /\ pc = "createClient" =>
                (storeVars' = storeVars /\ kss' = kss /\ caller' = "start")
          /\ pc = "aborted" => (pc' = "aborted" /\ storeVars' = storeVars)]_vars
    /\ []((pc = "aborted" /\ retry = 3) =>
             /\ caller = "start"
             /\ kss = NewKubeconfigSecret
             /\ ~pubOk
             /\ logged = "none"
             /\ once = "fresh"
             /\ pendingDo = 0
             /\ watchRuns = 0)

C17_Witness ==
    /\ pc = "aborted"
    /\ retry = 3
    /\ caller = "start"
    /\ ~sec.ex
    /\ ~adv.ex

\* C18, as claimed: a goroutine that enters once.Do after the first one
\* returns from it at once and without effect, also while WatchAdvertisement
\* runs: none is left waiting.
C18_LaterWatchStartsAreNoOps ==
    [][(once # "fresh" /\ pendingDo' < pendingDo) =>
          (blockedDo' = blockedDo /\ watchRuns' = watchRuns /\ once' = once)]_vars

\* C20: SendAdvertisementToForeignCluster returns to the loop either a nil
\* error and the advertisement, named adv-<HomeClusterID>, or an error and a
\* nil advertisement; where the loop reads adv.Name, adv is not nil.
C20_PublishResult ==
    /\ [][(pc \in PublishSteps /\ pc' \notin PublishSteps) =>
             \/ /\ pc' = "spawn"
                /\ ret' = AdvertisementPrefix \o HomeClusterID
                /\ advObj.ex
             \/ /\ pc' = "sleep1"
                /\ logged' = "publish"
                /\ ret' = NilAdv]_vars
    /\ [](pc = "spawn" => (ret # NilAdv /\ ret = AdvName(HomeClusterID)))
    /\ []((pc = "sleep1" /\ logged = "publish") => ret = NilAdv)

C20_Witness ==
    /\ caller = "loop"
    /\ pc = "spawn"
    /\ ret = AdvName(HomeClusterID)
    /\ logged = "none"
    /\ ~retrying
    /\ adv.ex
    /\ adv.content = 2

----------------------------------------------------------------------------
(* Properties of the resource accounting, under SpecAcct.                  *)

\* The pod is scheduled on a node of the virtual partition.
OnVirtualNode(pod) == pod.nodeName \in VirtualNodeNames

\* The pods the accounting is to count.
Counted(pod) == ~OnVirtualNode(pod) /\ ~pod.outgoing

\* C10, as claimed: the totals GetAllPodsResources returns are, per resource
\* class, the sums over the pods that are neither on a virtual node nor marked
\* as outgoing.
C10_TotalsOverCountedPods ==
    [][(acctPc = "input" /\ acctPc' = "done") =>
          /\ requests' = TotalRequests(SelectSeq(podList, Counted))
          /\ limits' = TotalLimits(SelectSeq(podList, Counted))]_vars

====
